---- MODULE Spec2Model ----
(***************************************************************************)
(* A model of src/main.py: the paginated fetch loop fetch_data_from_api,   *)
(* the cleaner preprocess_data and the analyses of main.                    *)
(*                                                                          *)
(* A CSV file is the sequence of its lines and a line is a record of text   *)
(* cells, one per column; the header line is the record of the column       *)
(* names.  A data frame is a sequence of rows whose cells are values; a     *)
(* missing text cell is NaN, a missing number is NaNf, a missing date NaT.  *)
(***************************************************************************)
EXTENDS Integers, Sequences, FiniteSets, TLC

\* ------------------------------------------------------------------ bounds
\* The data set behind the endpoint has at most MaxRows rows.
MaxRows == 2
\* fetch_data_from_api's limit parameter ranges over 1..MaxLimit.
MaxLimit == 2
\* The process is run at most MaxRuns times on the same working directory.
MaxRuns == 2

\* --------------------------------------------------------------- text cells
\* The in-memory missing value of a text column.
NaN == "<NaN>"

\* The cell texts pandas.read_csv decodes as missing.
na_values ==
    {"", "#N/A", "#N/A N/A", "#NA", "-1.#IND", "-1.#QNAN", "-NaN", "-nan",
     "1.#IND", "1.#QNAN", "<NA>", "N/A", "NA", "NULL", "NaN", "None", "n/a",
     "nan", "null"}

\* The columns of the source table, in order.
RawColumns ==
    <<"countyname", "party", "dateofbirth", "mailapplicationtype",
      "appissuedate", "appreturndate", "ballotsentdate", "ballotreturneddate",
      "legislative", "senate", "congressional">>

Range(s) == {s[i] : i \in DOMAIN s}

\* The header line of a CSV file with the columns cols: each cell is the
\* column's own name.
HeaderLine(cols) == [c \in Range(cols) |-> c]

RawHeader == HeaderLine(RawColumns)

\* -------------------------------------------------------------- the inputs
BaseRow ==
    [countyname |-> "ADAMS", party |-> "D", dateofbirth |-> "1996-03-01",
     mailapplicationtype |-> "OLREGV",
     appissuedate |-> "2020-01-01", appreturndate |-> "2020-01-02",
     ballotsentdate |-> "2020-01-05", ballotreturneddate |-> "2020-01-10",
     legislative |-> "91ST LEGISLATIVE DISTRICT",
     senate |-> "33RD SENATORIAL DISTRICT",
     congressional |-> "13TH CONGRESSIONAL DISTRICT"]

\* The rows the endpoint may serve: both sides of an age bucket's edge, the
\* sentinel year, an age outside every bucket, a date that does not parse, a
\* missing party, a missing senate.
RowPool ==
    { BaseRow,
      [BaseRow EXCEPT !.countyname = "YORK", !.party = "R",
                      !.dateofbirth = "1995-07-04",
                      !.ballotreturneddate = "2020-02-01",
                      !.congressional = "10TH CONGRESSIONAL DISTRICT"],
      [BaseRow EXCEPT !.dateofbirth = "1800-01-01"],
      [BaseRow EXCEPT !.party = "R", !.dateofbirth = "1880-01-01",
                      !.congressional = "10TH CONGRESSIONAL DISTRICT"],
      [BaseRow EXCEPT !.party = "NF", !.dateofbirth = "00/00/0000"],
      [BaseRow EXCEPT !.party = ""],
      [BaseRow EXCEPT !.senate = ""] }

SeqsUpTo(S, n) == UNION {[1..k -> S] : k \in 0..n}

Min(a, b) == IF a < b THEN a ELSE b

\* No failure: every request is answered with a page.
NoFail == 0 - 1

\* What can go wrong with one request: the transport fails, the status is
\* not 2xx, or the body does not decode as CSV.
FailKinds == {"ConnectionError", "HTTPError", "ParserError"}

\* The number of requests a call issues against tbl when none fails.
NumRequests(tbl, lim) == (Len(tbl) + lim - 1) \div lim + 1

VARIABLES
    table,          \* the data set behind the endpoint (CSV data lines)
    fail,           \* which request of a call fails (NoFail: none)
    limit,          \* fetch_data_from_api's limit argument
    run,            \* how many times the process has been started
    pc,             \* where main is
    offset,         \* fetch_data_from_api's local
    column_headers, \* fetch_data_from_api's local
    requests,       \* the params of the requests of the current call
    chunks,         \* the chunks the current call has written
    sink_at_call,   \* the raw file when the current call started
    log,            \* the log records of the current process
    sink,           \* data/application_in.csv (<<>>: no such file)
    application_in, \* main's local
    application_proc, \* main's local
    processed,      \* data/application_in_processed.csv
    invalid,        \* data/invalid_data.csv
    solution1,      \* solution/1_AgePartyAnalysis.csv
    solution2,      \* solution/2_MedianLatencyLegislative.csv
    solution3,      \* solution/3_TopCongressionalDistrict.csv
    solution4,      \* solution/4_PartyCounty.png (the plotted matrix)
    exit_status     \* how the last process ended

vars == <<table, fail, limit, run, pc, offset, column_headers, requests,
          chunks, sink_at_call, log, sink, application_in, application_proc,
          processed, invalid,
          solution1, solution2, solution3, solution4, exit_status>>

env == <<table, fail, limit>>
fetch_locals == <<offset, column_headers>>
outputs == <<processed, invalid, solution1, solution2, solution3, solution4>>
frames == <<application_in, application_proc>>

\* ------------------------------------------------------------- CSV coding
\* pandas.read_csv on one data line: a cell in na_values is missing.
read_csv_row(line) ==
    [c \in DOMAIN line |-> IF line[c] \in na_values THEN NaN ELSE line[c]]

\* pandas.read_csv: the first line is the header, every later line a row
\* (a later header line is a row like any other).
read_csv(lines) == [i \in 1..(Len(lines) - 1) |-> read_csv_row(lines[i + 1])]

\* DataFrame.to_csv on one row of text cells: a missing cell is written empty.
to_csv_row(row) == [c \in DOMAIN row |-> IF row[c] = NaN THEN "" ELSE row[c]]

to_csv_lines(df, cols, header) ==
    (IF header THEN <<HeaderLine(cols)>> ELSE <<>>)
        \o [i \in 1..Len(df) |-> to_csv_row(df[i])]

\* The same with mode='w': what the file held is lost.
to_csv_truncate(file, df, cols, header) == to_csv_lines(df, cols, header)

\* DataFrame.to_csv(file_name, mode='a', index=False, header=header)
to_csv_append(file, df, cols, header) == file \o to_csv_lines(df, cols, header)

\* ------------------------------------------------------------ the endpoint
\* The body the endpoint answers params with: the header line and at most
\* $limit rows from row $offset on.
ResponseContent(params) ==
    <<RawHeader>> \o
    SubSeq(table, params.offset + 1,
           Min(params.offset + params.limit, Len(table)))

\* ------------------------------------------------------------------ logging
Info(msg) == [level |-> "INFO", msg |-> msg]
Error(msg) == [level |-> "ERROR", msg |-> msg]

\* -------------------------------------------------------------------- Init
Init ==
    /\ table \in SeqsUpTo(RowPool, MaxRows)
    /\ limit \in 1..MaxLimit
    /\ fail \in {NoFail} \cup (0..(NumRequests(table, limit) - 1))
    /\ run = 0
    /\ pc = "idle"
    /\ offset = 0
    /\ column_headers = TRUE
    /\ requests = <<>>
    /\ chunks = <<>>
    /\ sink_at_call = <<>>
    /\ log = <<>>
    /\ sink = <<>>
    /\ application_in = <<>>
    /\ application_proc = <<>>
    /\ processed = <<>>
    /\ invalid = <<>>
    /\ solution1 = <<>>
    /\ solution2 = <<>>
    /\ solution3 = <<>>
    /\ solution4 = <<>>
    /\ exit_status = "none"

\* ------------------------------------------------------ fetch_data_from_api
\* main up to the call of fetch_data_from_api, and the call's first lines.
main_start ==
    /\ pc = "idle"
    /\ run < MaxRuns
    /\ run' = run + 1
    /\ log' = <<>>
    /\ exit_status' = "running"
    /\ offset' = 0
    /\ column_headers' = TRUE
    /\ requests' = <<>>
    /\ chunks' = <<>>
    /\ sink_at_call' = sink
    /\ pc' = "fetch_loop"
    /\ UNCHANGED <<env, sink, frames, outputs>>

\* The params of the next request.
request_params == [limit |-> limit, offset |-> offset]

\* The top of the loop: the request goes out.
fetch_request ==
    /\ pc = "fetch_loop"
    /\ requests' = Append(requests, request_params)
    /\ log' = Append(log, Info("Fetching rows"))
    /\ pc' = "fetch_wait"
    /\ UNCHANGED <<env, run, fetch_locals, chunks, sink_at_call, sink,
                   frames, outputs, exit_status>>

\* Whether the request in flight is the one that fails.
Failing == fail = Len(requests) - 1

\* The log record of the except clause that catches an error of this kind.
except_record(kind) ==
    IF kind \in {"ConnectionError", "HTTPError"}
    THEN Error("Error fetching data")
    ELSE Error("Unexpected error")

\* An except clause that went round the loop again.
after_except_retry == "fetch_loop"

\* Where control goes from an except clause: break.
after_except == "fetch_break"

\* requests.get, raise_for_status or read_csv raises: the except clause logs
\* and breaks.
fetch_error ==
    /\ pc = "fetch_wait"
    /\ Failing
    /\ \E kind \in FailKinds : log' = Append(log, except_record(kind))
    /\ pc' = after_except
    /\ UNCHANGED <<env, run, fetch_locals, requests, chunks, sink_at_call,
                   sink, frames, outputs, exit_status>>

\* The chunk decoded from the response to the request in flight.
chunk == read_csv(ResponseContent(requests[Len(requests)]))

\* An empty chunk that went round the loop again.
after_empty_continue == "fetch_loop"

\* Where control goes from an empty chunk: break.
after_empty == "fetch_break"

\* chunk.empty: log and break.
fetch_empty ==
    /\ pc = "fetch_wait"
    /\ ~Failing
    /\ chunk = <<>>
    /\ log' = Append(log, Info("No more rows to fetch."))
    /\ pc' = after_empty
    /\ UNCHANGED <<env, run, fetch_locals, requests, chunks, sink_at_call,
                   sink, frames, outputs, exit_status>>

\* An offset that counted pages instead of rows.
next_offset_by_one == offset + 1

\* offset += limit
next_offset == offset + limit

\* A chunk with rows: append it to the file, drop the header, move on.
fetch_chunk ==
    /\ pc = "fetch_wait"
    /\ ~Failing
    /\ chunk # <<>>
    /\ sink' = to_csv_append(sink, chunk, RawColumns, column_headers)
    /\ column_headers' = FALSE
    /\ offset' = next_offset
    /\ chunks' = Append(chunks, chunk)
    /\ pc' = "fetch_loop"
    /\ UNCHANGED <<env, run, requests, sink_at_call, log, frames, outputs,
                   exit_status>>

\* After the loop: the last log record, and the return to main.
fetch_return ==
    /\ pc = "fetch_break"
    /\ log' = Append(log, Info("Data written"))
    /\ pc' = "read_raw"
    /\ UNCHANGED <<env, run, fetch_locals, requests, chunks, sink_at_call,
                   sink, frames, outputs, exit_status>>

\* ---------------------------------------------------------- dates, numbers
\* The in-memory missing value of a number column (a float NaN).
NaNf == -1000000

\* The date texts that parse, with the calendar date each denotes.
Calendar ==
    ("1800-01-01" :> [year |-> 1800, month |-> 1, day |-> 1]) @@
    ("1880-01-01" :> [year |-> 1880, month |-> 1, day |-> 1]) @@
    ("1995-07-04" :> [year |-> 1995, month |-> 7, day |-> 4]) @@
    ("1996-03-01" :> [year |-> 1996, month |-> 3, day |-> 1]) @@
    ("2020-01-01" :> [year |-> 2020, month |-> 1, day |-> 1]) @@
    ("2020-01-02" :> [year |-> 2020, month |-> 1, day |-> 2]) @@
    ("2020-01-05" :> [year |-> 2020, month |-> 1, day |-> 5]) @@
    ("2020-01-10" :> [year |-> 2020, month |-> 1, day |-> 10]) @@
    ("2020-02-01" :> [year |-> 2020, month |-> 2, day |-> 1])

\* The missing date.
NaT == [year |-> 0, month |-> 0, day |-> 0]

\* pd.to_datetime(cell, errors='coerce'): what does not parse is NaT.
to_datetime(cell) == IF cell \in DOMAIN Calendar THEN Calendar[cell] ELSE NaT

\* Series.dt.year
dt_year(ts) == IF ts = NaT THEN NaNf ELSE ts.year

\* The text to_csv writes for a date.
date_text(ts) ==
    IF ts = NaT THEN "" ELSE CHOOSE s \in DOMAIN Calendar : Calendar[s] = ts

IsLeap(y) == (y % 4 = 0 /\ y % 100 # 0) \/ y % 400 = 0

DaysBeforeMonth == <<0, 31, 59, 90, 120, 151, 181, 212, 243, 273, 304, 334>>

\* The number of the day ts in the proleptic Gregorian calendar.
DayNumber(ts) ==
    LET y == ts.year - 1
    IN  365 * y + (y \div 4) - (y \div 100) + (y \div 400)
        + DaysBeforeMonth[ts.month]
        + (IF ts.month > 2 /\ IsLeap(ts.year) THEN 1 ELSE 0)
        + ts.day

\* (b - a).dt.days on two date columns
days_between(a, b) ==
    IF a = NaT \/ b = NaT THEN NaNf ELSE DayNumber(b) - DayNumber(a)

\* The text to_csv writes for a year: the column is a float column as soon
\* as one of its cells is missing.
year_text(y, float) ==
    IF y = NaNf THEN ""
    ELSE IF float THEN ToString(y) \o ".0" ELSE ToString(y)

Years == {Calendar[s].year : s \in DOMAIN Calendar}

\* pandas.read_csv on a cell of a number column.
read_year(cell) ==
    IF cell \in na_values THEN NaNf
    ELSE CHOOSE y \in Years : cell \in {year_text(y, TRUE), year_text(y, FALSE)}

\* Series.str.replace(' ', '_').str.lower() on the texts of the model.
snake ==
    ("33RD SENATORIAL DISTRICT" :> "33rd_senatorial_district") @@
    ("senate" :> "senate")

\* The order of the texts the analyses sort by.
TextOrder == <<"ADAMS", "D", "NF", "R", "YORK", "countyname", "party">>

TextRank(t) == CHOOSE i \in DOMAIN TextOrder : TextOrder[i] = t

\* ----------------------------------------------------------- preprocess_data
\* isnull().all(axis=1) on one row
isnull_all(row) == \A c \in DOMAIN row : row[c] = NaN

\* isnull().any(axis=1) on one row
isnull_any(row) == \E c \in DOMAIN row : row[c] = NaN

\* app_data[app_data.isnull().any(axis=1)]
inv_rows(app_data) == SelectSeq(app_data, isnull_any)

\* app_data.dropna(how='all'): a row stays when one of its cells is there.
dropna_keep_how_all(row) == \E c \in DOMAIN row : row[c] # NaN

\* app_data.dropna(): a row stays when none of its cells is missing.
dropna_keep(row) == \A c \in DOMAIN row : row[c] # NaN

dropna(app_data) == SelectSeq(app_data, dropna_keep)

\* The columns of the cleaned table, in order.
ProcessedColumns ==
    <<"countyname", "party", "dateofbirth", "yr_born", "mailapplicationtype",
      "appissuedate", "appreturndate", "ballotsentdate", "ballotreturneddate",
      "legislative", "senate", "congressional">>

\* One row of the cleaned frame: senate in snake letters, the date of birth
\* as a date, the year born next to it.
clean_row(row) ==
    [c \in Range(ProcessedColumns) |->
        CASE c = "senate" -> snake[row.senate]
          [] c = "dateofbirth" -> to_datetime(row.dateofbirth)
          [] c = "yr_born" -> dt_year(to_datetime(row.dateofbirth))
          [] OTHER -> row[c]]

clean(app_data) ==
    LET kept == dropna(app_data)
    IN  [i \in 1..Len(kept) |-> clean_row(kept[i])]

\* The cleaned frame as the lines to_csv writes, header first.
processed_lines(df) ==
    LET float == \E i \in 1..Len(df) : df[i].yr_born = NaNf
        line(row) ==
            [c \in Range(ProcessedColumns) |->
                CASE c = "dateofbirth" -> date_text(row.dateofbirth)
                  [] c = "yr_born" -> year_text(row.yr_born, float)
                  [] OTHER -> IF row[c] = NaN THEN "" ELSE row[c]]
    IN  <<HeaderLine(ProcessedColumns)>> \o [i \in 1..Len(df) |-> line(df[i])]

\* pandas.read_csv on the cleaned file.
read_processed(lines) ==
    [i \in 1..(Len(lines) - 1) |->
        [c \in Range(ProcessedColumns) |->
            IF c = "yr_born" THEN read_year(lines[i + 1][c])
            ELSE IF lines[i + 1][c] \in na_values THEN NaN
            ELSE lines[i + 1][c]]]

\* ---------------------------------------------------------------------- main
\* pd.read_csv(FILE_NAME): the file must be there.
main_read_raw ==
    /\ pc = "read_raw"
    /\ IF sink = <<>>
       THEN /\ pc' = "idle"
            /\ exit_status' = "FileNotFoundError"
            /\ UNCHANGED application_in
       ELSE /\ application_in' = read_csv(sink)
            /\ pc' = "preprocess"
            /\ UNCHANGED exit_status
    /\ UNCHANGED <<env, run, fetch_locals, requests, chunks, sink_at_call,
                   log, sink, application_proc, outputs>>

\* A column read_csv finds no text in is a float column, and Series.str
\* raises on it.
no_str_accessor(app_data, column) ==
    \A i \in DOMAIN app_data : app_data[i][column] = NaN

\* preprocess_data(application_in): both files are written anew, unless the
\* senate column has no text, which ends the process before either is.
preprocess_data ==
    /\ pc = "preprocess"
    /\ IF no_str_accessor(application_in, "senate")
       THEN /\ pc' = "idle"
            /\ exit_status' = "AttributeError"
            /\ UNCHANGED <<processed, invalid, log>>
       ELSE /\ processed' = processed_lines(clean(application_in))
            /\ invalid' = to_csv_lines(inv_rows(application_in), RawColumns, TRUE)
            /\ log' = Append(log, Info("Preprocessed and Invalid Data written"))
            /\ pc' = "question1"
            /\ UNCHANGED exit_status
    /\ UNCHANGED <<env, run, fetch_locals, requests, chunks, sink_at_call,
                   sink, frames, solution1, solution2, solution3, solution4>>

\* The birth year that stands for "unknown".
SentinelYear == 1800

\* The year the age is taken in.
ReferenceYear == 2020

\* ---- Question 1
\* application_proc[application_proc['yr_born'] != 1800]: a missing year
\* differs from every number.
not_sentinel(row) == row.yr_born # SentinelYear

\* 2020 - yr_born
age(row) ==
    IF row.yr_born = NaNf THEN NaNf ELSE ReferenceYear - row.yr_born

bins == <<0, 25, 35, 45, 55, 65, 140>>

labels == <<"under 25", "26-35", "36-45", "46-55", "56-65", "over 65">>

\* The i-th interval of pd.cut(bins=bins) with the default right=True.
in_bin_right_closed(a, i) == a # NaNf /\ bins[i] < a /\ a <= bins[i + 1]

\* Whether a lies in the i-th interval of pd.cut(bins=bins, right=False).
in_bin(a, i) == a # NaNf /\ bins[i] <= a /\ a < bins[i + 1]

\* pd.cut(a, bins=bins, labels=labels, right=False): outside every
\* interval, and for a missing age, the group is missing.
age_group(a) ==
    IF \E i \in DOMAIN labels : in_bin(a, i)
    THEN labels[CHOOSE i \in DOMAIN labels : in_bin(a, i)]
    ELSE NaN

data_age_analysis(df) == SelectSeq(df, not_sentinel)

\* groupby(['party', 'age_group']).size(): every party of the frame with
\* every label, in the order of the keys; a row whose group is missing is in
\* no group.
group_sizes(df) ==
    LET present == {df[i].party : i \in DOMAIN df}
        InFrame(t) == t \in present
        parties == SelectSeq(TextOrder, InFrame)
        n == Len(labels)
    IN  [k \in 1..(Len(parties) * n) |->
            LET p == parties[(k - 1) \div n + 1]
                g == labels[((k - 1) % n) + 1]
            IN  [party |-> p, age_group |-> g,
                 count |-> Cardinality({i \in DOMAIN df :
                              df[i].party = p /\ age_group(age(df[i])) = g})]]

\* sort_values(by=['party', 'count'], ascending=[False, False]): whether a
\* goes before b.
stats_before(a, b) ==
    \/ TextRank(a.party) > TextRank(b.party)
    \/ a.party = b.party /\ a.count > b.count

\* The sort keeps the order of records neither of which goes before the other.
RECURSIVE sort_stats(_)
sort_stats(s) ==
    IF s = <<>> THEN <<>>
    ELSE LET rest == sort_stats(Tail(s))
             k == Cardinality({i \in DOMAIN rest : stats_before(rest[i], Head(s))})
         IN  SubSeq(rest, 1, k) \o <<Head(s)>> \o SubSeq(rest, k + 1, Len(rest))

vote_by_mail_stats(df) == sort_stats(group_sizes(data_age_analysis(df)))

\* The cleaned file is read back, and question 1 is answered from it.
question1 ==
    /\ pc = "question1"
    /\ application_proc' = read_processed(processed)
    /\ solution1' = vote_by_mail_stats(application_proc')
    /\ log' = Append(log, Info("Question 1 solved"))
    /\ pc' = "question2"
    /\ UNCHANGED <<env, run, fetch_locals, requests, chunks, sink_at_call,
                   sink, application_in, processed, invalid, solution2,
                   solution3, solution4, exit_status>>

\* ---- Question 2
\* (ballotreturneddate - appissuedate).dt.days
latency_days(row) ==
    days_between(to_datetime(row.appissuedate),
                 to_datetime(row.ballotreturneddate))

RECURSIVE sort_numbers(_)
sort_numbers(s) ==
    IF s = <<>> THEN <<>>
    ELSE LET rest == sort_numbers(Tail(s))
             k == Cardinality({i \in DOMAIN rest : rest[i] < Head(s)})
         IN  SubSeq(rest, 1, k) \o <<Head(s)>> \o SubSeq(rest, k + 1, Len(rest))

\* Twice the median of the numbers of s that are not missing (twice, so that
\* the half of an even count stays an integer); missing when there is none.
median_x2(s) ==
    LET IsNumber(x) == x # NaNf
        v == sort_numbers(SelectSeq(s, IsNumber))
        n == Len(v)
    IN  IF n = 0 THEN NaNf
        ELSE IF n % 2 = 1 THEN 2 * v[(n + 1) \div 2]
        ELSE v[n \div 2] + v[n \div 2 + 1]

\* groupby('legislative')['latency_days'].median()
median_latency(df) ==
    { [legislative |-> g,
       median_latency_days_x2 |->
           LET InGroup(row) == row.legislative = g
               members == SelectSeq(df, InGroup)
           IN  median_x2([i \in DOMAIN members |-> latency_days(members[i])])]
      : g \in {df[i].legislative : i \in DOMAIN df} }

\* The orders sort_values(by=by, ascending=False) may leave the records of S
\* in: descending, missing keys last; the order of equal keys is the sort
\* algorithm's.
descending(S, by) ==
    { s \in [1..Cardinality(S) -> S] :
        /\ \A i, j \in DOMAIN s : i # j => s[i] # s[j]
        /\ \A i, j \in DOMAIN s :
              i < j => \/ s[j][by] = NaNf
                       \/ s[i][by] # NaNf /\ s[i][by] >= s[j][by] }

question2 ==
    /\ pc = "question2"
    /\ solution2' \in descending(median_latency(application_proc),
                                  "median_latency_days_x2")
    /\ log' = Append(log, Info("Question 2 solved"))
    /\ pc' = "question3"
    /\ UNCHANGED <<env, run, fetch_locals, requests, chunks, sink_at_call,
                   sink, frames, processed, invalid, solution1,
                   solution3, solution4, exit_status>>

\* ---- Question 3
\* groupby('congressional').size().reset_index(name='request_count')
congressional_counts(df) ==
    { [congressional |-> g,
       request_count |-> Cardinality({i \in DOMAIN df : df[i].congressional = g})]
      : g \in {df[i].congressional : i \in DOMAIN df} \ {NaN} }

\* DataFrame.head(n)
head(s, n) == SubSeq(s, 1, Min(n, Len(s)))

\* The number of records of the sorted counts that are written.
TopN == 1

\* The record at rank 1 of the sorted counts (iloc[1:2]) instead of rank 0.
top_congressional_district_later_rank(sorted) ==
    IF Len(sorted) >= 2 THEN <<sorted[2]>> ELSE <<>>

\* congressional_counts.head(1)
top_congressional_district(sorted) == head(sorted, TopN)

question3 ==
    /\ pc = "question3"
    /\ \E sorted \in descending(congressional_counts(application_proc),
                                 "request_count") :
          solution3' = top_congressional_district(sorted)
    /\ log' = Append(log, Info("Question 3 solved"))
    /\ pc' = "question4"
    /\ UNCHANGED <<env, run, fetch_locals, requests, chunks, sink_at_call,
                   sink, frames, processed, invalid, solution1,
                   solution2, solution4, exit_status>>

\* ---- Question 4
\* application_proc[application_proc['party'].isin(['R', 'D'])]
is_rep_dem(row) == row.party \in {"R", "D"}

data_rep_dem(df) == SelectSeq(df, is_rep_dem)

\* groupby(['countyname', 'party']).size().unstack(fill_value=0): one record
\* a county, in the order of the counties, one count for each party of the
\* frame.
county_party_counts(df) ==
    LET counties == {df[i].countyname : i \in DOMAIN df}
        InFrame(t) == t \in counties
        parties == {df[i].party : i \in DOMAIN df}
        names == SelectSeq(TextOrder, InFrame)
    IN  [k \in DOMAIN names |->
            [countyname |-> names[k],
             counts |-> [p \in parties |->
                 Cardinality({i \in DOMAIN df :
                     df[i].countyname = names[k] /\ df[i].party = p})]]]

\* The plot has no column to draw when no row is left, and raises ("no
\* numeric data to plot"); the process ends there.  Otherwise the chart is
\* saved and main returns.
question4 ==
    /\ pc = "question4"
    /\ IF data_rep_dem(application_proc) = <<>>
       THEN /\ exit_status' = "TypeError"
            /\ UNCHANGED <<solution4, log>>
       ELSE /\ solution4' = county_party_counts(data_rep_dem(application_proc))
            /\ log' = Append(log, Info("Question 4 solved"))
            /\ exit_status' = "ok"
    /\ pc' = "idle"
    /\ UNCHANGED <<env, run, fetch_locals, requests, chunks, sink_at_call,
                   sink, frames, processed, invalid, solution1, solution2,
                   solution3>>

Next ==
    \/ main_start
    \/ fetch_request
    \/ fetch_error
    \/ fetch_empty
    \/ fetch_chunk
    \/ fetch_return
    \/ main_read_raw
    \/ preprocess_data
    \/ question1
    \/ question2
    \/ question3
    \/ question4

Spec == Init /\ [][Next]_vars

\* One step of a call of fetch_data_from_api.
fetch_step ==
    fetch_request \/ fetch_error \/ fetch_empty \/ fetch_chunk \/ fetch_return

\* A call that has a next step takes it: the loop is sequential code, and
\* every request is answered.
Fairness == WF_vars(fetch_step)

FairSpec == Init /\ [][Next]_vars /\ Fairness

\* ================================================================ the claims
RECURSIVE Repeat(_, _)
Repeat(s, n) == IF n = 0 THEN <<>> ELSE s \o Repeat(s, n - 1)

\* The rows of the chunks cs, one after the other, as lines.
RECURSIVE Flatten(_)
Flatten(cs) ==
    IF cs = <<>> THEN <<>>
    ELSE [i \in DOMAIN Head(cs) |-> to_csv_row(Head(cs)[i])] \o Flatten(Tail(cs))

\* The elements of s at the indices I, in order.
Pick(s, I) ==
    [k \in 1..Cardinality(I) |->
        s[CHOOSE i \in I : Cardinality({j \in I : j < i}) = k - 1]]

Logged(record) == \E i \in DOMAIN log : log[i] = record

ErrorCount == Cardinality({i \in DOMAIN log : log[i].level = "ERROR"})

Errored == ErrorCount > 0

InFetch == pc \in {"fetch_loop", "fetch_wait", "fetch_break"}

\* The current process's call of fetch_data_from_api has returned.
Returned == run > 0 /\ ~InFetch

\* The loop of the current call is over.
Stopped == run > 0 /\ pc \notin {"fetch_loop", "fetch_wait"}

\* The data lines of the pages a call is served before it stops.
ServedRows ==
    SubSeq(table, 1,
           IF fail = NoFail THEN Len(table)
           ELSE Min(fail * limit, Len(table)))

\* What one call appends to the raw file.
OneCallOutput == IF ServedRows = <<>> THEN <<>> ELSE <<RawHeader>> \o ServedRows

\* C1 (as stated): after a call that met no error, the raw file is exactly
\* one header line followed by the rows of the non-empty pages in order.
C1_SinkIsOneTable ==
    (Returned /\ ~Errored) => sink = <<RawHeader>> \o table

\* C2: when the request for page k fails, the call returns to main with the
\* final log record written, the raw file holds what it held when the call
\* started followed by the header and the rows of pages 0..k-1 (nothing at
\* all when k = 0) and nothing of page k, and exactly one error is logged.
C2_ErrorKeepsPartial ==
    (run > 0 /\ Errored) =>
        /\ fail # NoFail
        /\ pc \notin {"fetch_loop", "fetch_wait"}
        /\ sink = sink_at_call \o OneCallOutput
        /\ Len(chunks) = fail
        /\ ErrorCount = 1
        /\ Returned => Logged(Info("Data written"))

C2_Witness ==
    /\ Returned /\ Errored
    /\ fail = 1
    /\ Len(table) > limit
    /\ sink = <<RawHeader>> \o SubSeq(table, 1, limit)

\* C3: the i-th request (i = 0, 1, ...) carries limit and offset i * limit,
\* at most one request is unanswered, the offset is limit times the number of
\* chunks that have been appended to the raw file, and the request that is
\* answered by an empty page or an error is the last one.
C3_OffsetsInOrder ==
    /\ \A i \in DOMAIN requests :
          requests[i] = [limit |-> limit, offset |-> (i - 1) * limit]
    /\ offset = limit * Len(chunks)
    /\ sink = sink_at_call
              \o (IF chunks = <<>> THEN <<>> ELSE <<RawHeader>>)
              \o Flatten(chunks)
    /\ Len(requests) = Len(chunks) + (IF pc = "fetch_wait" \/ Stopped THEN 1 ELSE 0)

C3_Witness ==
    /\ pc = "fetch_break"
    /\ Len(requests) = 3
    /\ requests[3].offset = 2 * limit

\* C5: a call that has started reaches its final log record and returns, and
\* the step that answers a request with an empty page or an error leaves the
\* loop.
C5_FetchTerminates ==
    /\ (pc = "fetch_loop") ~> (pc = "read_raw" /\ Logged(Info("Data written")))
    /\ [][(pc = "fetch_wait" /\ (Failing \/ chunk = <<>>)) => pc' = "fetch_break"]_vars

C5_Witness ==
    /\ pc = "read_raw"
    /\ Len(chunks) = 2
    /\ Logged(Info("No more rows to fetch."))
    /\ Logged(Info("Data written"))

\* C4 (as stated): a process whose fetch met an error still reads the raw
\* file, cleans it and comes to the analyses.
C4_FetchErrorNotFatal ==
    (Errored /\ pc = "idle") =>
        /\ exit_status # "FileNotFoundError"
        /\ Logged(Info("Preprocessed and Invalid Data written"))
        /\ Logged(Info("Question 3 solved"))

\* C10: the raw file is appended to: after the r-th process on the same
\* directory and the same source it holds r times what one call writes, each
\* copy with its own header line.
C10_RerunDuplicates ==
    Returned => sink = Repeat(OneCallOutput, run)

C10_Witness ==
    /\ Returned
    /\ run = 2
    /\ Len(ServedRows) = 2
    /\ sink = <<RawHeader>> \o ServedRows \o <<RawHeader>> \o ServedRows

\* The current process has cleaned its input.
Preprocessed == Logged(Info("Preprocessed and Invalid Data written"))

NullRows == {i \in DOMAIN application_in :
                \E c \in Range(RawColumns) : application_in[i][c] = NaN}

FullRows == DOMAIN application_in \ NullRows

UntouchedColumns == Range(RawColumns) \ {"senate", "dateofbirth"}

Missing == {NaN, ""}

\* C7 (as stated): no row of the cleaned file has a missing cell in any of
\* its columns.
C7_NoNullInCleaned ==
    Preprocessed =>
        LET cleaned == read_processed(processed)
        IN  \A k \in DOMAIN cleaned :
                /\ cleaned[k].yr_born # NaNf
                /\ \A c \in Range(ProcessedColumns) \ {"yr_born"} :
                      cleaned[k][c] \notin Missing

\* C7 (amended): no row of the cleaned file has a missing cell in a column
\* other than dateofbirth and yr_born, and these two are missing together,
\* exactly in the rows whose date of birth does not parse.
C7_NullOnlyFromUnparsedDate ==
    Preprocessed =>
        LET cleaned == read_processed(processed)
            full == Pick(application_in, FullRows)
        IN  \A k \in DOMAIN cleaned :
                /\ \A c \in Range(ProcessedColumns) \ {"yr_born", "dateofbirth"} :
                      cleaned[k][c] \notin Missing
                /\ cleaned[k].yr_born = NaNf <=> cleaned[k].dateofbirth \in Missing
                /\ cleaned[k].yr_born = NaNf
                      <=> full[k].dateofbirth \notin DOMAIN Calendar

C7_Witness ==
    /\ Preprocessed
    /\ LET cleaned == read_processed(processed)
       IN  /\ \E k \in DOMAIN cleaned :
                 cleaned[k].yr_born = NaNf /\ cleaned[k].party = "NF"
           /\ \E k \in DOMAIN cleaned : cleaned[k].yr_born # NaNf

Q1Solved == Logged(Info("Question 1 solved"))

\* The count the age/party result gives for party p and label g.
CountIn(p, g) ==
    LET hits == {i \in DOMAIN solution1 :
                    solution1[i].party = p /\ solution1[i].age_group = g}
    IN  IF hits = {} THEN 0 ELSE solution1[CHOOSE i \in hits : TRUE].count

PartyTotal(p) ==
    CountIn(p, labels[1]) + CountIn(p, labels[2]) + CountIn(p, labels[3])
    + CountIn(p, labels[4]) + CountIn(p, labels[5]) + CountIn(p, labels[6])

Parties == {application_proc[i].party : i \in DOMAIN application_proc}

YearKnown(row) == row.yr_born # NaNf

\* The cleaned rows of party p born in a year that puts the age in [lo, hi).
AgedBetween(p, lo, hi) ==
    {i \in DOMAIN application_proc :
        /\ application_proc[i].party = p
        /\ YearKnown(application_proc[i])
        /\ application_proc[i].yr_born # 1800
        /\ lo <= 2020 - application_proc[i].yr_born
        /\ 2020 - application_proc[i].yr_born < hi}

BucketCountsRight ==
    \A p \in Parties : \A i \in 1..6 :
        CountIn(p, labels[i]) = Cardinality(AgedBetween(p, bins[i], bins[i + 1]))

\* C8 (as stated): each count is the number of rows of its party and age
\* range, a row born in 1800 is in no bucket, and every other row is in
\* exactly one.
C8_EveryOtherRowBucketed ==
    Q1Solved =>
        /\ BucketCountsRight
        /\ \A p \in Parties :
              PartyTotal(p) = Cardinality({i \in DOMAIN application_proc :
                                 /\ application_proc[i].party = p
                                 /\ application_proc[i].yr_born # 1800})

\* C8 (amended): each count is the number of rows of its party and age
\* range; a row born in 1800, a row whose year of birth is missing and a row
\* whose age is outside [0, 140) are in no bucket, and every other row is in
\* exactly one.
C8_BucketCounts ==
    Q1Solved =>
        /\ BucketCountsRight
        /\ \A p \in Parties :
              PartyTotal(p) = Cardinality(AgedBetween(p, 0, 140))
        /\ \A i \in DOMAIN solution1 : solution1[i].party \in Parties

C8_Witness ==
    /\ Q1Solved
    /\ \E i \in DOMAIN application_proc : application_proc[i].yr_born = 1800
    /\ CountIn("R", "26-35") = 1
    /\ CountIn("D", "under 25") = 0

Q3Solved == Logged(Info("Question 3 solved"))

RequestCount(g) ==
    Cardinality({i \in DOMAIN application_proc :
                    application_proc[i].congressional = g})

Districts == {application_proc[i].congressional : i \in DOMAIN application_proc}

\* The one record written is a district no other district has more rows than.
TopIsHighest ==
    /\ Len(solution3) = 1
    /\ solution3[1].congressional \in Districts
    /\ solution3[1].request_count = RequestCount(solution3[1].congressional)
    /\ \A g \in Districts : RequestCount(g) <= solution3[1].request_count

\* C9 (as stated): exactly one record is written, a district of the highest
\* count.
C9_ExactlyOneTop == Q3Solved => TopIsHighest

\* C9 (amended): a district of the highest count is written as the only
\* record when the cleaned table has a row, and no record when it has none.
C9_TopOrNone ==
    Q3Solved =>
        IF application_proc = <<>> THEN solution3 = <<>> ELSE TopIsHighest

C9_Witness ==
    /\ Q3Solved
    /\ Len(solution3) = 1
    /\ \E g \in Districts : RequestCount(g) < solution3[1].request_count


====
